---- MODULE Spec2Model ----
(***************************************************************************)
(* Model of steam-dos: the DOSBox configuration generator (confgen.py) and *)
(* the MIDI helper (midi.py).                                              *)
(*                                                                         *)
(* Text is modelled as a sequence of one-character strings, so that the    *)
(* case conversions, suffix tests and regular expressions of the source    *)
(* are computed character by character.                                    *)
(***************************************************************************)
EXTENDS Integers, Sequences, FiniteSets, TLC

VARIABLES
    pc,             \* position of the operation being run
    args,           \* arguments of the operation being run
    conf,           \* DosboxConfiguration: the non-autoexec sections of the dict
    raw_autoexec,   \* DosboxConfiguration.raw_autoexec (self['autoexec'])
    encoding,       \* DosboxConfiguration.encoding
    idx,            \* index of the next element of the sequence being iterated
    out,            \* values yielded / file content written so far
    client,         \* list_alsa_sequencer_ports: locals client, name, space
    result,         \* value returned by the operation
    children,       \* synthesiser child processes: pid -> state
    handlers        \* atexit registry: sequence of registered pids

vars == <<pc, args, conf, raw_autoexec, encoding, idx, out, client, result,
          children, handlers>>

-----------------------------------------------------------------------------
(* Text helpers *)

Lowers == <<"a","b","c","d","e","f","g","h","i","j","k","l","m",
            "n","o","p","q","r","s","t","u","v","w","x","y","z">>

Uppers == <<"A","B","C","D","E","F","G","H","I","J","K","L","M",
            "N","O","P","Q","R","S","T","U","V","W","X","Y","Z">>

IsLower(c) == \E i \in 1..Len(Lowers) : Lowers[i] = c

IsUpper(c) == \E i \in 1..Len(Uppers) : Uppers[i] = c

IsLetter(c) == IsLower(c) \/ IsUpper(c)

\* str.lower() on one character
lower(c) == IF IsUpper(c) THEN Lowers[CHOOSE i \in 1..Len(Uppers) : Uppers[i] = c] ELSE c

\* str.upper() on one character
upper(c) == IF IsLower(c) THEN Uppers[CHOOSE i \in 1..Len(Lowers) : Lowers[i] = c] ELSE c

StrLower(s) == [i \in 1..Len(s) |-> lower(s[i])]

StrUpper(s) == [i \in 1..Len(s) |-> upper(s[i])]

\* s[i:] with a 1-based i
Tail_from(s, i) == SubSeq(s, i, Len(s))

endswith(s, suffix) ==
    /\ Len(s) >= Len(suffix)
    /\ SubSeq(s, Len(s) - Len(suffix) + 1, Len(s)) = suffix

startswith_at(s, i, prefix) ==
    /\ i + Len(prefix) - 1 <= Len(s)
    /\ SubSeq(s, i, i + Len(prefix) - 1) = prefix

\* the absent value (Python's None), distinct from every text
None == <<"<None>">>

\* str(None), as produced by str.format
StrNone == <<"N","o","n","e">>

Range(f) == {f[x] : x \in DOMAIN f}

RECURSIVE Concat(_)
\* the concatenation of a sequence of sequences
Concat(ss) == IF ss = <<>> THEN <<>> ELSE Head(ss) \o Concat(Tail(ss))

IsPrefix(s, t) == Len(s) <= Len(t) /\ SubSeq(t, 1, Len(s)) = s

-----------------------------------------------------------------------------
(* Bounds *)

MaxFiles == 2

-----------------------------------------------------------------------------
(* DosboxConfiguration: inputs *)

EmptyConf == [s \in {} |-> <<>>]

Sec1(s, body) == [x \in {s} |-> body]

Opt1(o, v) == [x \in {o} |-> v]

Opt2(o1, v1, o2, v2) == [x \in {o1, o2} |-> IF x = o1 THEN v1 ELSE v2]

o_xms == <<"x","m","s">>
o_XMS == <<"X","M","S">>
o_ems == <<"e","m","s">>
o_umb == <<"u","m","b">>
o_aspect == <<"a","s","p","e","c","t">>

l_cls == <<"c","l","s">>
l_echo_off == <<"@","e","c","h","o"," ","o","f","f">>
l_mount_c_game == <<"m","o","u","n","t"," ","c"," ","g","a","m","e">>
l_dir == <<"d","i","r">>
l_exit == <<"e","x","i","t">>

\* A configuration file as parse_dosbox_config reads it: whether its Windows
\* path resolves, its non-autoexec sections (option names verbatim), its
\* autoexec section (the keys of the section, which are distinct) and the
\* encoding the read succeeded with.
ConfFile(found, sections, has_autoexec, autoexec, enc) ==
    [found |-> found, sections |-> sections, has_autoexec |-> has_autoexec,
     autoexec |-> autoexec, enc |-> enc]

ConfFileSet ==
    { ConfFile(TRUE, Sec1("dos", Opt2(o_xms, "false", o_XMS, "true")),
               TRUE, <<l_cls, l_mount_c_game>>, "utf-8"),
      ConfFile(TRUE, [s \in {"dos", "render"} |->
                        IF s = "dos" THEN Opt2(o_xms, "true", o_ems, "false")
                        ELSE Opt1(o_aspect, "true")],
               TRUE, <<l_echo_off>>, "cp1250"),
      ConfFile(TRUE, Sec1("render", Opt1(o_aspect, "false")),
               FALSE, <<>>, "utf-8"),
      ConfFile(TRUE, Sec1("dos", EmptyConf), TRUE, <<>>, "utf-8"),
      ConfFile(TRUE, EmptyConf, TRUE, <<l_dir>>, "utf-8"),
      ConfFile(FALSE, EmptyConf, FALSE, <<>>, "utf-8") }

\* tweak_conf dictionaries, keys as the caller wrote them
TweakSet ==
    { EmptyConf,
      Sec1("dos", Opt1(o_XMS, "false")),
      [s \in {"dos", "render"} |->
          IF s = "dos" THEN Opt1(o_umb, "false") ELSE Opt1(o_aspect, "false")],
      Sec1("dos", Opt2(o_xms, "true", o_XMS, "false")),
      Sec1("autoexec", Opt1(l_cls, "x")) }

CommandsSet == { <<>>, <<l_dir, l_cls>> }

e_GAME_RUN_EXE == <<"G","A","M","E","\\","R","U","N",".","E","X","E">>
e_start_bat == <<"s","t","a","r","t",".","b","a","t">>
e_GAME_GO_BAT == <<"G","A","M","E","\\","G","O",".","B","A","T">>
e_bat == <<"b","a","t">>

ExeSet == { None, <<>>, e_GAME_RUN_EXE, e_start_bat, e_GAME_GO_BAT, e_bat }

\* The entries that may exist on the case-sensitive file system.
RealPaths ==
    { <<"g","a","m","e","/","R","U","N",".","E","X","E">>,
      <<"S","T","A","R","T",".","B","A","T">>,
      <<"G","a","m","e","/","g","o",".","B","a","t">>,
      <<"b","a","t">>,
      <<"g","a","m","e">>,
      <<"G","a","m","e"," ","D","i","r">>,
      <<"c","d","/","X",".","i","s","o">> }

\* to_posix_path: the backslashes of a Windows path become slashes
WinToPosix(p) == [i \in 1..Len(p) |-> IF p[i] = "\\" THEN "/" ELSE p[i]]

\* to_posix_path: the values the call can return, depending on which entries
\* exist: the real path that equals the argument up to case, or None.
to_posix_path(p) ==
    {None} \cup {r \in RealPaths : StrLower(r) = StrLower(WinToPosix(p))}

-----------------------------------------------------------------------------
(* DosboxConfiguration *)

\* dict.update of one section by the options of another
SetOptions(body, items) ==
    [o \in DOMAIN body \cup DOMAIN items |->
        IF o \in DOMAIN items THEN items[o] ELSE body[o]]

\* Mutant of import_ini_sections: a section already present is left as it is
\* instead of having the options of the parser set in it.
import_ini_sections_adopt_only(self, config) ==
    LET names == DOMAIN config \ {"autoexec"}
    IN  [name \in DOMAIN self \cup names |->
            IF name \in DOMAIN self THEN self[name] ELSE config[name]]

\* __import_ini_sections__ with the sections of one parser: the autoexec
\* section is skipped, an unseen section is adopted, a section already
\* present gets each option of the parser set in it.
import_ini_sections(self, config) ==
    LET names == DOMAIN config \ {"autoexec"}
    IN  [name \in DOMAIN self \cup names |->
            IF name \notin names THEN self[name]
            ELSE IF name \notin DOMAIN self THEN config[name]
            ELSE SetOptions(self[name], config[name])]

\* ConfigParser() of the tweak overlay keeps the default optionxform, which
\* lower-cases option names
optionxform(o) == StrLower(o)

\* ConfigParser.read_dict in strict mode: two keys of a section that become
\* the same option raise DuplicateOptionError
read_dict_fails(d) ==
    \E s \in DOMAIN d : \E o1, o2 \in DOMAIN d[s] :
        o1 /= o2 /\ optionxform(o1) = optionxform(o2)

read_dict(d) ==
    [s \in DOMAIN d |->
        [o \in {optionxform(k) : k \in DOMAIN d[s]} |->
            d[s][CHOOSE k \in DOMAIN d[s] : optionxform(k) = o]]]

\* conf_files or self.__get_default_conf__()
FilesToRead(a) == IF a.conf_files /= <<>> THEN a.conf_files ELSE a.default_conf

\* os.path.split: the part before the last slash, without its trailing
\* slashes unless it is all slashes, and the part after it
LastSlash(p) ==
    IF \E i \in 1..Len(p) : p[i] = "/"
    THEN CHOOSE i \in 1..Len(p) : p[i] = "/" /\ \A j \in (i+1)..Len(p) : p[j] /= "/"
    ELSE 0

RECURSIVE rstrip_slash(_)
rstrip_slash(h) ==
    IF h /= <<>> /\ h[Len(h)] = "/" THEN rstrip_slash(SubSeq(h, 1, Len(h) - 1)) ELSE h

split_head(p) ==
    LET head == SubSeq(p, 1, LastSlash(p))
    IN  IF \A i \in 1..Len(head) : head[i] = "/" THEN head ELSE rstrip_slash(head)

split_tail(p) == Tail_from(p, LastSlash(p) + 1)

dot_bat == <<".","b","a","t">>

\* Mutant of IsBatch: the suffix is compared without lower-casing the name.
IsBatch_case_sensitive(file) == endswith(file, dot_bat)

\* file.lower().endswith('.bat')
IsBatch(file) == endswith(StrLower(file), dot_bat)

\* 'mount C {0}'.format(path or '.')
MountLine(path) ==
    <<"m","o","u","n","t"," ","C"," ">> \o (IF path = <<>> THEN <<".">> ELSE path)

l_C_colon == <<"C",":">>

\* 'call {0}'.format(file), or the bare file name
RunLine(file) == IF IsBatch(file) THEN <<"c","a","l","l"," ">> \o file ELSE file

\* the lines appended for the executable, lines 148-155
ExeLines(posix_path, exit_after_exe) ==
    <<MountLine(split_head(posix_path)), l_C_colon, RunLine(split_tail(posix_path))>>
    \o (IF exit_after_exe THEN <<l_exit>> ELSE <<>>)

Idle ==
    /\ out = <<>>
    /\ client = <<>>
    /\ result = None
    /\ children = <<>>
    /\ handlers = <<>>

InitConf ==
    /\ pc = "init"
    /\ \E cf \in UNION {[1..n -> ConfFileSet] : n \in 0..MaxFiles},
          dc \in {<<>>} \cup {<<f>> : f \in {g \in ConfFileSet : g.found}},
          cmds \in CommandsSet, exe \in ExeSet, tw \in TweakSet,
          nae \in BOOLEAN, eae \in BOOLEAN :
            /\ cf /= <<>> => dc = <<>>
            /\ args = [commands |-> cmds, conf_files |-> cf, default_conf |-> dc,
                       exe |-> exe, noautoexec |-> nae, exit_after_exe |-> eae,
                       tweak_conf |-> tw]
    /\ conf = EmptyConf
    /\ raw_autoexec = <<>>
    /\ encoding = "utf-8"
    /\ idx = 1
    /\ Idle

\* lines 124-128: the assertion and the empty configuration
Construct ==
    /\ pc = "init"
    /\ pc' = IF args.commands /= <<>> \/ args.conf_files /= <<>>
                \/ (args.exe /= None /\ args.exe /= <<>>)
             THEN "files" ELSE "failed"
    /\ conf' = EmptyConf
    /\ raw_autoexec' = <<>>
    /\ encoding' = "utf-8"
    /\ idx' = 1
    /\ UNCHANGED <<args, out, client, result, children, handlers>>

\* lines 130-137: one iteration of the loop over the configuration files
ImportFile ==
    /\ pc = "files"
    /\ idx <= Len(FilesToRead(args))
    /\ LET file == FilesToRead(args)[idx]
       IN  IF ~file.found
           THEN /\ pc' = "failed"
                /\ UNCHANGED <<conf, raw_autoexec, encoding, idx>>
           ELSE /\ conf' = import_ini_sections(conf, file.sections)
                /\ encoding' = IF file.enc /= "utf-8" THEN file.enc ELSE encoding
                /\ raw_autoexec' =
                      IF ~args.noautoexec /\ file.has_autoexec
                      THEN raw_autoexec \o file.autoexec
                      ELSE raw_autoexec
                /\ idx' = idx + 1
                /\ pc' = "files"
    /\ UNCHANGED <<args, out, client, result, children, handlers>>

\* Mutant of AddCommands: the commands are put in front of the sequence.
AddCommands_in_front ==
    /\ pc = "files"
    /\ idx > Len(FilesToRead(args))
    /\ raw_autoexec' = args.commands \o raw_autoexec
    /\ pc' = "tweak"
    /\ UNCHANGED <<args, conf, encoding, idx, out, client, result, children, handlers>>

\* line 139
AddCommands ==
    /\ pc = "files"
    /\ idx > Len(FilesToRead(args))
    /\ raw_autoexec' = raw_autoexec \o args.commands
    /\ pc' = "tweak"
    /\ UNCHANGED <<args, conf, encoding, idx, out, client, result, children, handlers>>

\* lines 141-143
ImportTweak ==
    /\ pc = "tweak"
    /\ IF read_dict_fails(args.tweak_conf)
       THEN pc' = "failed" /\ UNCHANGED conf
       ELSE /\ conf' = import_ini_sections(conf, read_dict(args.tweak_conf))
            /\ pc' = "exe"
    /\ UNCHANGED <<args, raw_autoexec, encoding, idx, out, client, result,
                   children, handlers>>

\* lines 145-155
AddExe ==
    /\ pc = "exe"
    /\ IF args.exe = None \/ args.exe = <<>>
       THEN pc' = "built" /\ UNCHANGED raw_autoexec
       ELSE \E posix_path \in to_posix_path(args.exe) :
               IF posix_path = None
               THEN pc' = "failed" /\ UNCHANGED raw_autoexec
               ELSE /\ raw_autoexec' =
                         raw_autoexec \o ExeLines(posix_path, args.exit_after_exe)
                    /\ pc' = "built"
    /\ UNCHANGED <<args, conf, encoding, idx, out, client, result, children, handlers>>

NextConf == Construct \/ ImportFile \/ AddCommands \/ ImportTweak \/ AddExe

SpecConf == InitConf /\ [][NextConf]_vars

-----------------------------------------------------------------------------
(* Claims about DosboxConfiguration *)

ExeGiven == args.exe /= None /\ args.exe /= <<>>

\* The sources merged so far, in merge order: the sections of the files read,
\* then the tweak overlay as its parser holds it.
Imported ==
    LET files == FilesToRead(args)
        secs(n) == [i \in 1..n |-> files[i].sections]
    IN  CASE pc = "init" -> <<>>
          [] pc = "files" -> secs(idx - 1)
          [] pc = "tweak" -> secs(Len(files))
          [] OTHER -> secs(Len(files)) \o <<read_dict(args.tweak_conf)>>

Defines(src, s, o) == s \in DOMAIN src /\ s /= "autoexec" /\ o \in DOMAIN src[s]

FileLines ==
    LET files == FilesToRead(args)
    IN  IF args.noautoexec THEN <<>>
        ELSE Concat([i \in 1..Len(files) |->
                        IF files[i].has_autoexec THEN files[i].autoexec ELSE <<>>])

\* the lines of the built autoexec after the file lines and the commands
Generated ==
    Tail_from(raw_autoexec, Len(FileLines) + Len(args.commands) + 1)

C2_Order ==
    pc = "built" =>
        /\ IsPrefix(FileLines \o args.commands, raw_autoexec)
        /\ Len(Generated) = IF ~ExeGiven THEN 0
                            ELSE IF args.exit_after_exe THEN 4 ELSE 3
        /\ ExeGiven =>
              /\ IsPrefix(<<"m","o","u","n","t"," ","C"," ">>, Generated[1])
              /\ Generated[2] = l_C_colon
              /\ args.exit_after_exe => Generated[4] = l_exit

\* C2: every construction step extends the autoexec sequence at its end, and
\* the built sequence is the lines of the files (none under noautoexec), then
\* the inline commands, then the lines generated for the executable with exit
\* last.
C2_AppendOnlyOrdered ==
    [](C2_Order) /\ [][IsPrefix(raw_autoexec, raw_autoexec')]_vars

C2_Witness ==
    /\ pc = "built"
    /\ FileLines /= <<>>
    /\ args.commands /= <<>>
    /\ Len(FilesToRead(args)) = 2
    /\ Len(Generated) = 4

C2_WitnessSuppressed ==
    /\ pc = "built"
    /\ args.noautoexec
    /\ \E i \in 1..Len(FilesToRead(args)) : FilesToRead(args)[i].autoexec /= <<>>

\* a path is the join of a directory part and a file name
IsJoin(p, D, F) ==
    /\ \A i \in 1..Len(F) : F[i] /= "/"
    /\ p = IF D = <<>> THEN F ELSE D \o <<"/">> \o F

\* C3: with an executable resolved to directory D and file name F the lines
\* appended are mount C D (or mount C .), C:, call F or F, and exit exactly
\* when exit-after-run was requested; without an executable nothing is
\* appended.
C3_ExeLines ==
    pc = "built" =>
        IF ExeGiven
        THEN \E p \in to_posix_path(args.exe) \ {None} :
             \E m, n \in 0..Len(p) :
                LET D == SubSeq(p, 1, m)
                    F == SubSeq(p, n + 1, Len(p))
                    bat == /\ Len(F) >= 4
                           /\ lower(F[Len(F) - 3]) = "."
                           /\ lower(F[Len(F) - 2]) = "b"
                           /\ lower(F[Len(F) - 1]) = "a"
                           /\ lower(F[Len(F)]) = "t"
                IN  /\ IsJoin(p, D, F)
                    /\ Generated =
                         << <<"m","o","u","n","t"," ","C"," ">>
                               \o (IF D = <<>> THEN <<".">> ELSE D),
                            <<"C",":">>,
                            IF bat THEN <<"c","a","l","l"," ">> \o F ELSE F >>
                         \o (IF args.exit_after_exe THEN << <<"e","x","i","t">> >>
                             ELSE <<>>)
        ELSE raw_autoexec = FileLines \o args.commands

\* built with a batch file in upper case inside a directory, exit requested
C3_Witness ==
    /\ pc = "built"
    /\ args.exe = e_GAME_GO_BAT
    /\ args.exit_after_exe
    /\ Len(Generated) = 4
    /\ Generated[3] = <<"c","a","l","l"," ","g","o",".","B","a","t">>

-----------------------------------------------------------------------------
(* to_linux_autoexec: the regular expressions *)

\* the character at position i, or "" past the end
At(s, i) == IF i \in 1..Len(s) THEN s[i] ELSE ""

\* ' *' from position i: the position after the run of spaces
SkipSpaces(s, i) ==
    CHOOSE j \in i..(Len(s) + 1) :
        /\ \A k \in i..(j - 1) : s[k] = " "
        /\ At(s, j) /= " "

\* '[^ ]+' from position i: the position after the run of non-spaces
SkipNonSpaces(s, i) ==
    CHOOSE j \in i..(Len(s) + 1) :
        /\ \A k \in i..(j - 1) : s[k] /= " "
        /\ (j = Len(s) + 1 \/ s[j] = " ")

kw_mount == <<"m","o","u","n","t">>
kw_imgmount == <<"i","m","g","m","o","u","n","t">>

\* a literal matched at position i under re.IGNORECASE
imatch_at(s, i, lit) ==
    /\ i + Len(lit) - 1 <= Len(s)
    /\ StrLower(SubSeq(s, i, i + Len(lit) - 1)) = lit

\* '(mount|imgmount)' at position i: the length matched, 0 for no match
KeywordLen(s, i) ==
    IF imatch_at(s, i, kw_mount) THEN Len(kw_mount)
    ELSE IF imatch_at(s, i, kw_imgmount) THEN Len(kw_imgmount)
    ELSE 0

\* '@? *(mount|imgmount) +([a-z]):? +', the part cmd_1 and cmd_2 share:
\* whether it matches, groups 1 and 2, and the position after it
mount_head(s) ==
    LET i1 == IF At(s, 1) = "@" THEN 2 ELSE 1
        i2 == SkipSpaces(s, i1)
        k  == KeywordLen(s, i2)
        i3 == i2 + k
        i4 == SkipSpaces(s, i3)
        i5 == i4 + 1
        i6 == IF At(s, i5) = ":" THEN i5 + 1 ELSE i5
        i7 == SkipSpaces(s, i6)
        ok == k > 0 /\ i4 > i3 /\ IsLetter(At(s, i4)) /\ i7 > i6
    IN  IF ok
        THEN [ok |-> TRUE, cmd |-> SubSeq(s, i2, i3 - 1), drive |-> <<s[i4]>>, p |-> i7]
        ELSE [ok |-> FALSE, cmd |-> <<>>, drive |-> <<>>, p |-> 0]

NoMatch == [ok |-> FALSE, g1 |-> <<>>, g2 |-> <<>>, g3 |-> <<>>, g4 |-> <<>>]

\* mount_cmd_1.match(line): the path in double quotes
mount_cmd_1(s) ==
    LET h == mount_head(s)
        q == h.p
        closing == {j \in (q + 1)..Len(s) : s[j] = "\""}
        j == CHOOSE x \in closing : \A y \in closing : x <= y
    IN  IF h.ok /\ At(s, q) = "\"" /\ closing /= {} /\ j >= q + 2
        THEN [ok |-> TRUE, g1 |-> h.cmd, g2 |-> h.drive,
              g3 |-> SubSeq(s, q + 1, j - 1),
              g4 |-> IF At(s, j + 1) = " " THEN Tail_from(s, j + 1) ELSE <<>>]
        ELSE NoMatch

\* mount_cmd_2.match(line): the path up to the next space
mount_cmd_2(s) ==
    LET h == mount_head(s)
        q == h.p
        j == SkipNonSpaces(s, q)
    IN  IF h.ok /\ q <= Len(s)
        THEN [ok |-> TRUE, g1 |-> h.cmd, g2 |-> h.drive,
              g3 |-> SubSeq(s, q, j - 1),
              g4 |-> Tail_from(s, j)]
        ELSE NoMatch

\* change_drv.match(line): '@? *([a-z]:)\\? *$'
change_drv(s) ==
    LET i1 == IF At(s, 1) = "@" THEN 2 ELSE 1
        i2 == SkipSpaces(s, i1)
        i3 == i2 + 2
        i4 == IF At(s, i3) = "\\" THEN i3 + 1 ELSE i3
        i5 == SkipSpaces(s, i4)
    IN  IF IsLetter(At(s, i2)) /\ At(s, i2 + 1) = ":" /\ i5 = Len(s) + 1
        THEN [ok |-> TRUE, g1 |-> SubSeq(s, i2, i2 + 1)]
        ELSE [ok |-> FALSE, g1 |-> <<>>]

\* Mutant of mount_match: the unquoted pattern is tried first.
mount_match_unquoted_first(line) ==
    IF mount_cmd_2(line).ok THEN mount_cmd_2(line) ELSE mount_cmd_1(line)

\* line 253: mount_cmd_1.match(line) or mount_cmd_2.match(line)
mount_match(line) ==
    IF mount_cmd_1(line).ok THEN mount_cmd_1(line) ELSE mount_cmd_2(line)

\* str.format of a value that may be None
Str(v) == IF v = None THEN StrNone ELSE v

\* lines 255-259: '{0} {1} "{2}"{3}'.format(cmd, drive, path, rest)
mount_line(match, path) ==
    StrLower(match.g1) \o <<" ">> \o StrUpper(match.g2) \o <<" ", "\"">>
        \o Str(path) \o <<"\"">> \o match.g4

\* the body of the loop of to_linux_autoexec for one line, given the value
\* to_posix_path returns when it is called
convert_line(line, path) ==
    IF mount_match(line).ok THEN mount_line(mount_match(line), path)
    ELSE IF change_drv(line).ok THEN StrUpper(change_drv(line).g1)
    ELSE line

-----------------------------------------------------------------------------
(* to_linux_autoexec: inputs *)

MaxLines == 2

p_game == <<"G","A","M","E">>
p_Game_Dir == <<"g","a","m","e"," ","d","i","r">>
p_cd_iso == <<"C","D","\\","x",".","I","S","O">>
p_nope == <<"n","o","p","e">>
p_quote_game == <<"\"","g","a","m","e">>

r_iso == <<" ","-","t"," ","i","s","o">>
r_wide == <<" "," ","-","t"," ","c","d","r","o","m"," ">>

\* a mount command, by its parts: optional @ and spaces, the keyword, spaces,
\* the drive letter, an optional colon, spaces, the path (quoted or not),
\* trailing arguments (starting with their spaces) and text glued to the
\* closing quote
MountParts(pre, kw, sp1, drive, colon, sp2, quoted, path, rest, junk) ==
    [kind |-> "mount", pre |-> pre, kw |-> kw, sp1 |-> sp1, drive |-> drive,
     colon |-> colon, sp2 |-> sp2, quoted |-> quoted, path |-> path,
     rest |-> rest, junk |-> junk]

DriveParts(pre, drive, backslash, trail) ==
    [kind |-> "drive", pre |-> pre, drive |-> drive, backslash |-> backslash,
     trail |-> trail]

OtherParts(text) == [kind |-> "other", text |-> text]

Keywords == { <<"m","o","u","n","t">>, <<"M","O","U","N","T">>,
              <<"I","m","g","M","o","u","n","t">> }

PathArgs ==
    { [quoted |-> FALSE, path |-> p_game], [quoted |-> TRUE, path |-> p_Game_Dir],
      [quoted |-> TRUE, path |-> p_cd_iso], [quoted |-> FALSE, path |-> p_nope] }

MountPartsSet ==
    { MountParts(<<>>, kw, <<" ">>, <<"c">>, FALSE, <<" ">>, a.quoted, a.path, <<>>, <<>>) :
        kw \in Keywords, a \in PathArgs }
    \cup
    { MountParts(<<>>, <<"m","o","u","n","t">>, <<" ">>, <<"c">>, FALSE, <<" ">>,
                 a.quoted, a.path, r_iso, <<>>) : a \in PathArgs }
    \cup
    { MountParts(pre, <<"m","o","u","n","t">>, <<" "," ">>, d.drive, d.colon, <<" "," ">>,
                 TRUE, p_Game_Dir, r_wide, <<>>) :
        pre \in {<<"@">>, <<" ">>, <<"@"," "," ">>},
        d \in {[drive |-> <<"d">>, colon |-> TRUE], [drive |-> <<"E">>, colon |-> FALSE]} }
    \cup
    { MountParts(<<>>, <<"m","o","u","n","t">>, <<" ">>, <<"c">>, FALSE, <<" ">>,
                 TRUE, p_game, <<>>, <<"x"," ","y">>),
      MountParts(<<>>, <<"m","o","u","n","t">>, <<" ">>, <<"c">>, TRUE, <<" ">>,
                 FALSE, p_quote_game, <<>>, <<>>) }

DrivePartsSet ==
    { DriveParts(d.pre, d.drive, bs, trail) :
        d \in {[pre |-> <<>>, drive |-> <<"c">>], [pre |-> <<"@"," ">>, drive |-> <<"D">>]},
        bs \in BOOLEAN, trail \in {<<>>, <<" "," ">>} }

OtherPartsSet ==
    { OtherParts(t) : t \in
        { <<>>, l_cls, l_echo_off,
          <<"m","o","u","n","t","x"," ","c"," ","g","a","m","e">>,
          <<"m","o","u","n","t"," ","c","d"," ","g","a","m","e">>,
          <<"m","o","u","n","t"," ","c",":","g","a","m","e">>,
          <<"m","o","u","n","t"," ","c"," ">>,
          <<" ","@","c",":">>,
          <<"c",":","\\","g","a","m","e">>,
          <<"e","c","h","o"," ","m","o","u","n","t"," ","c"," ","x">>,
          <<"c","a","l","l"," ","R","U","N",".","B","A","T">> } }

\* the text of a line given by its parts
Render(parts) ==
    CASE parts.kind = "mount" ->
            parts.pre \o parts.kw \o parts.sp1 \o parts.drive
            \o (IF parts.colon THEN <<":">> ELSE <<>>) \o parts.sp2
            \o (IF parts.quoted THEN <<"\"">> \o parts.path \o <<"\"">> ELSE parts.path)
            \o parts.junk \o parts.rest
      [] parts.kind = "drive" ->
            parts.pre \o parts.drive \o <<":">>
            \o (IF parts.backslash THEN <<"\\">> ELSE <<>>) \o parts.trail
      [] OTHER -> parts.text

LinePartsSet == MountPartsSet \cup DrivePartsSet \cup OtherPartsSet

InitLinux ==
    /\ pc = "convert"
    /\ \E ps \in UNION {[1..n -> LinePartsSet] : n \in 1..MaxLines} :
          args = [parts |-> ps, autoexec |-> [i \in 1..Len(ps) |-> Render(ps[i])]]
    /\ idx = 1
    /\ out = <<>>
    /\ result = <<>>
    /\ conf = EmptyConf
    /\ raw_autoexec = <<>>
    /\ encoding = "utf-8"
    /\ client = <<>>
    /\ children = <<>>
    /\ handlers = <<>>

NotCalled == [arg |-> None, ret |-> None]

\* lines 252-266: one iteration of the loop, yielding one line; result logs
\* the argument to_posix_path was called with and what it returned
ConvertLine ==
    /\ pc = "convert"
    /\ idx <= Len(args.autoexec)
    /\ LET line == args.autoexec[idx]
       IN  IF mount_match(line).ok
           THEN \E path \in to_posix_path(mount_match(line).g3) :
                   /\ out' = Append(out, convert_line(line, path))
                   /\ result' = Append(result,
                                       [arg |-> mount_match(line).g3, ret |-> path])
           ELSE /\ out' = Append(out, convert_line(line, None))
                /\ result' = Append(result, NotCalled)
    /\ idx' = idx + 1
    /\ pc' = IF idx = Len(args.autoexec) THEN "converted" ELSE "convert"
    /\ UNCHANGED <<args, conf, raw_autoexec, encoding, client, children, handlers>>

NextLinux == ConvertLine

SpecLinux == InitLinux /\ [][NextLinux]_vars

-----------------------------------------------------------------------------
(* Claims about to_linux_autoexec *)

\* what the claim says a line given by its parts becomes, the resolver
\* having returned ret for its path
Expected(parts, ret) ==
    CASE parts.kind = "mount" ->
            StrLower(parts.kw) \o <<" ">> \o StrUpper(parts.drive)
            \o <<" ", "\"">> \o ret \o <<"\"">> \o parts.rest
      [] parts.kind = "drive" -> StrUpper(parts.drive) \o <<":">>
      [] OTHER -> parts.text

\* C4: one output line per input line in the same order; a mount or imgmount
\* line has its path argument (without the quotes) resolved and is re-emitted
\* as keyword in lower case, drive letter in upper case, the resolved path in
\* double quotes, and the trailing arguments; a drive change becomes the
\* drive in upper case; every other line is unchanged.
C4_LineByLine ==
    pc \in {"convert", "converted"} =>
        /\ Len(out) = idx - 1
        /\ pc = "converted" <=> Len(out) = Len(args.autoexec)
        /\ \A i \in 1..Len(out) :
              LET parts == args.parts[i]
              IN  IF parts.kind = "mount"
                  THEN /\ result[i].arg = parts.path
                       /\ result[i].ret /= None =>
                             out[i] = Expected(parts, result[i].ret)
                  ELSE /\ result[i] = NotCalled
                       /\ out[i] = Expected(parts, None)

\* two lines converted: a drive change after a quoted mount with a space in
\* its path and trailing arguments, the path resolved
C4_Witness ==
    /\ pc = "converted"
    /\ Len(out) = 2
    /\ args.parts[1].kind = "mount" /\ args.parts[1].quoted
    /\ args.parts[1].path = p_Game_Dir /\ args.parts[1].rest /= <<>>
    /\ result[1].ret = <<"G","a","m","e"," ","D","i","r">>
    /\ args.parts[2].kind = "drive"
    /\ out[2] /= args.autoexec[2]

\* C5 as claimed: a mount line whose path the resolver does not find is
\* yielded unmodified.
C5_UnresolvedLineUnmodified ==
    pc \in {"convert", "converted"} =>
        \A i \in 1..Len(out) :
            (args.parts[i].kind = "mount" /\ result[i].ret = None)
                => out[i] = args.autoexec[i]

-----------------------------------------------------------------------------
(* midi.py: list_alsa_sequencer_ports and detect_software_synthesiser *)

MaxStatusLines == 3

n_TiMidity == <<"T","i","M","i","d","i","t","y">>
n_FLUID == <<"F","L","U","I","D"," ","S","y","n","t","h">>
n_Through == <<"M","i","d","i"," ","T","h","r","o","u","g","h">>

\* a line client_pattern matches: groups 1-3
ClientLine(id, name, space) ==
    [kind |-> "client", id |-> id, name |-> name, space |-> space]

\* a line port_pattern matches: groups 1-3, the third of exactly 4 characters
PortLine(port, desc, flags) ==
    [kind |-> "port", port |-> port, desc |-> desc, flags |-> flags]

\* a line neither pattern matches
OtherLine == [kind |-> "other"]

StatusLineSet ==
    { ClientLine("128", n_TiMidity, "User"),
      ClientLine("129", n_FLUID, "User"),
      ClientLine("14", n_Through, "Kernel"),
      PortLine("0", "port 0", <<"-","W","e","-">>),
      PortLine("1", "port 1", <<"R","-","e","-">>),
      PortLine("2", "port 2", <<"W","-","-","-">>),
      OtherLine }

\* /proc/asound/seq/clients: whether it can be opened, and its lines
StatusFiles ==
    { [present |-> FALSE, lines |-> <<>>] } \cup
    { [present |-> TRUE, lines |-> ls] :
        ls \in UNION {[1..n -> StatusLineSet] : n \in 0..MaxStatusLines} }

\* a name expression: the literals of an alternation a|b|...
x_timidity == <<"t","i","m","i","d","i","t","y">>
x_fluid == <<"f","l","u","i","d">>
x_Fluid == <<"F","l","u","i","d">>

\* r'timidity|fluid', line 349 of confgen.py
SynthExpr == {x_timidity, x_fluid}

NameExprs == { SynthExpr, {x_Fluid}, {<<"m","i","d","i">>} }

\* the absent port (None) that detect_software_synthesiser returns
NoPort == [found |-> FALSE]

\* line 32: client, name, space = '', '', ''
NoClient == [client |-> "", name |-> <<>>, space |-> ""]

MidiPort(addr, name, desc, space, flags) ==
    [addr |-> addr, name |-> name, desc |-> desc, space |-> space, flags |-> flags]

\* lines 34-39: the locals after a line
scan_client(ctx, line) ==
    IF line.kind = "client"
    THEN [client |-> line.id, name |-> line.name, space |-> line.space]
    ELSE ctx

\* lines 40-45: the ports a line yields; f'{client}:{port}' is the pair
scan_yield(ctx, line) ==
    IF line.kind = "port"
    THEN <<MidiPort(<<ctx.client, line.port>>, ctx.name, line.desc, ctx.space, line.flags)>>
    ELSE <<>>

\* re.compile(name_expr).match(text): a literal of the alternation starts text
re_match(name_expr, text) == \E lit \in name_expr : startswith_at(text, 1, lit)

\* lines 52-55: the port is returned
port_accepted(name_expr, port) ==
    /\ ~(port.flags[2] /= "W")
    /\ re_match(name_expr, StrLower(port.name))

RECURSIVE scan_all(_, _)
\* list(list_alsa_sequencer_ports()) for an opened file
scan_all(ctx, lines) ==
    IF lines = <<>> THEN <<>>
    ELSE scan_yield(ctx, Head(lines)) \o scan_all(scan_client(ctx, Head(lines)), Tail(lines))

RECURSIVE first_accepted(_, _)
\* lines 51-57 over the ports of an opened file
first_accepted(name_expr, ports) ==
    IF ports = <<>> THEN NoPort
    ELSE IF port_accepted(name_expr, Head(ports)) THEN Head(ports)
    ELSE first_accepted(name_expr, Tail(ports))

InitMidi ==
    /\ pc = "open"
    /\ \E f \in StatusFiles, e \in NameExprs, op \in {"list", "detect"} :
          args = [present |-> f.present, clients |-> f.lines, name_expr |-> e,
                  op |-> op]
    /\ idx = 1
    /\ out = <<>>
    /\ client = NoClient
    /\ result = NoPort
    /\ conf = EmptyConf
    /\ raw_autoexec = <<>>
    /\ encoding = "utf-8"
    /\ children = <<>>
    /\ handlers = <<>>

\* lines 29-32: open() raises when the file is missing or unreadable
OpenClients ==
    /\ pc = "open"
    /\ pc' = IF ~args.present THEN "raised" ELSE "scan"
    /\ client' = NoClient
    /\ UNCHANGED <<args, conf, raw_autoexec, encoding, idx, out, result, children, handlers>>

\* lines 33-45, and for detect_software_synthesiser lines 51-56: one line of
\* the file; a port it yields is handed to the caller, which returns it when
\* it accepts it
ScanLine ==
    /\ pc = "scan"
    /\ idx <= Len(args.clients)
    /\ LET line == args.clients[idx]
           ports == scan_yield(client, line)
       IN  /\ client' = scan_client(client, line)
           /\ out' = out \o ports
           /\ IF args.op = "detect" /\ ports /= <<>>
                 /\ port_accepted(args.name_expr, ports[1])
              THEN result' = ports[1] /\ pc' = "returned"
              ELSE UNCHANGED result /\ pc' = "scan"
    /\ idx' = idx + 1
    /\ UNCHANGED <<args, conf, raw_autoexec, encoding, children, handlers>>

\* the generator is exhausted; line 57: return None
EndOfClients ==
    /\ pc = "scan"
    /\ idx > Len(args.clients)
    /\ pc' = IF args.op = "detect" THEN "returned" ELSE "listed"
    /\ UNCHANGED <<args, conf, raw_autoexec, encoding, idx, out, client, result,
                   children, handlers>>

NextMidi == OpenClients \/ ScanLine \/ EndOfClients

SpecMidi == InitMidi /\ [][NextMidi]_vars

-----------------------------------------------------------------------------
(* Claims about midi.py *)

\* the Port lines among the first n lines of the file
PortLinesUpTo(n) == {i \in 1..n : args.clients[i].kind = "port"}

\* the last Client line before line i, 0 when there is none
LastClientBefore(i) ==
    IF \E j \in 1..(i - 1) : args.clients[j].kind = "client"
    THEN CHOOSE j \in 1..(i - 1) :
            /\ args.clients[j].kind = "client"
            /\ \A k \in (j + 1)..(i - 1) : args.clients[k].kind /= "client"
    ELSE 0

\* the Port lines among the first n lines that follow a Client line
OpenPortLinesUpTo(n) == {i \in PortLinesUpTo(n) : LastClientBefore(i) /= 0}

\* the i-th smallest element of a set of numbers
Nth(S, i) == CHOOSE x \in S : Cardinality({y \in S : y <= x}) = i

\* C10 as claimed: the ports yielded are exactly, in file order, one for each
\* Port line that follows a Client line, each with the id, name and space of
\* the last Client line before it; a line matching neither pattern yields
\* nothing and leaves the client context as it was.
C10_PortsOnlyUnderClient ==
    pc \in {"scan", "listed"} =>
        LET lines == OpenPortLinesUpTo(idx - 1)
        IN  /\ Len(out) = Cardinality(lines)
            /\ \A i \in 1..Len(out) :
                  LET at == Nth(lines, i)
                      cl == args.clients[LastClientBefore(at)]
                  IN  /\ out[i].addr = <<cl.id, args.clients[at].port>>
                      /\ out[i].name = cl.name
                      /\ out[i].space = cl.space

\* a port satisfies both conditions of the claim
C6_Satisfies(port) ==
    /\ port.flags[2] = "W"
    /\ \E lit \in args.name_expr :
          startswith_at(StrLower(port.name), 1, StrLower(lit))

\* C6 as claimed: detect_software_synthesiser returns the first port in
\* enumeration order that is write-capable and whose client name matches the
\* expression, compared without regard to case, at its start; it returns
\* absent exactly when no port satisfies both.
C6_FirstWritableMatch ==
    (pc = "returned" /\ args.op = "detect") =>
        LET ports == scan_all(NoClient, args.clients)
            hits == {i \in 1..Len(ports) : C6_Satisfies(ports[i])}
        IN  IF hits = {} THEN result = NoPort
            ELSE result = ports[Nth(hits, 1)]

-----------------------------------------------------------------------------
(* confgen.py: create_auto_conf_file *)

Flags == {"true", "false"}

DosBodies ==
    UNION {[S -> Flags] : S \in SUBSET {o_xms, o_ems, o_umb}}
    \cup {Opt1(o_XMS, "false"), Opt2(o_XMS, "false", o_ems, "false")}

\* the conf argument: whether a configuration is given, and its sections
AutoConfSet ==
    { [given |-> FALSE, conf |-> EmptyConf],
      [given |-> TRUE, conf |-> EmptyConf],
      [given |-> TRUE, conf |-> Sec1("render", Opt1(o_aspect, "true"))] }
    \cup { [given |-> TRUE, conf |-> Sec1("dos", b)] : b \in DosBodies }
    \cup { [given |-> TRUE,
            conf |-> [s \in {"dos", "render"} |->
                        IF s = "dos" THEN b ELSE Opt1(o_umb, "false")]] :
           b \in DosBodies }

AutoStatusFiles ==
    { [present |-> FALSE, lines |-> <<>>],
      [present |-> TRUE, lines |-> <<>>],
      [present |-> TRUE, lines |-> <<ClientLine("128", n_TiMidity, "User"),
                                     PortLine("0", "port 0", <<"-","W","e","-">>)>>],
      [present |-> TRUE, lines |-> <<ClientLine("14", n_Through, "Kernel"),
                                     PortLine("0", "port 0", <<"-","W","e","-">>),
                                     ClientLine("129", n_FLUID, "User"),
                                     PortLine("1", "port 1", <<"R","-","e","-">>),
                                     PortLine("0", "port 0", <<"-","W","e","-">>)>>] }

\* settings.get_dosbox_fullresolution() and settings.get_dosbox_scaler()
SettingsSet ==
    { [fullresolution |-> "desktop", scaler |-> "normal3x"],
      [fullresolution |-> "1920x1080", scaler |-> "none"] }

\* SectionProxy.get(option, fallback)
get(body, option, fallback) == IF option \in DOMAIN body THEN body[option] ELSE fallback

\* conf and conf.has_section(name)
has_section(given, sections, name) == given /\ name \in DOMAIN sections

\* lines 362-367: the [render] section written
render_section(given, sections, scaler) ==
    [aspect |-> IF has_section(given, sections, "render")
                THEN get(sections["render"], o_aspect, "false") ELSE "false",
     scaler |-> scaler]

\* lines 369-373: the [sblaster] section written
sblaster_section == [sbtype |-> "sb16", sbbase |-> 220, irq |-> 7, dma |-> 1, hdma |-> 5]

\* lines 374-378: the [midi] sections written, none without a port
midi_section(mport) ==
    IF mport /= NoPort
    THEN <<[mpu401 |-> "intelligent", mididevice |-> "default", midiconfig |-> mport.addr]>>
    ELSE <<>>

\* Mutant of dos_section: the section is written, with the defaults, also
\* when the configuration has no dos section.
dos_section_always(given, sections) ==
    LET body == IF has_section(given, sections, "dos") THEN sections["dos"] ELSE EmptyConf
    IN  <<[xms |-> get(body, o_xms, "true"),
           ems |-> get(body, o_ems, "true"),
           umb |-> get(body, o_umb, "true")]>>

\* lines 380-386: the [dos] sections written, none without a dos section
dos_section(given, sections) ==
    IF has_section(given, sections, "dos")
    THEN <<[xms |-> get(sections["dos"], o_xms, "true"),
            ems |-> get(sections["dos"], o_ems, "true"),
            umb |-> get(sections["dos"], o_umb, "true")]>>
    ELSE <<>>

NoFile == [written |-> FALSE]

InitAuto ==
    /\ pc = "detect"
    /\ \E c \in AutoConfSet, f \in AutoStatusFiles, st \in SettingsSet :
          args = [given |-> c.given, conf |-> c.conf, present |-> f.present,
                  clients |-> f.lines, settings |-> st]
    /\ out = NoFile
    /\ result = NoPort
    /\ idx = 1
    /\ client = NoClient
    /\ conf = EmptyConf
    /\ raw_autoexec = <<>>
    /\ encoding = "utf-8"
    /\ children = <<>>
    /\ handlers = <<>>

\* line 349: midi.detect_software_synthesiser(r'timidity|fluid'), which
\* raises when the status file cannot be opened
DetectSynth ==
    /\ pc = "detect"
    /\ IF ~args.present
       THEN pc' = "raised" /\ UNCHANGED result
       ELSE /\ result' = first_accepted(SynthExpr, scan_all(NoClient, args.clients))
            /\ pc' = "write"
    /\ UNCHANGED <<args, conf, raw_autoexec, encoding, idx, out, client, children, handlers>>

\* lines 353-388: steam_dos_auto.conf is written
WriteAutoConf ==
    /\ pc = "write"
    /\ out' = [written |-> TRUE,
               sdl |-> [fullresolution |-> args.settings.fullresolution],
               render |-> render_section(args.given, args.conf, args.settings.scaler),
               sblaster |-> sblaster_section,
               midi |-> midi_section(result),
               dos |-> dos_section(args.given, args.conf)]
    /\ pc' = "written"
    /\ UNCHANGED <<args, conf, raw_autoexec, encoding, idx, client, result, children, handlers>>

NextAuto == DetectSynth \/ WriteAutoConf

SpecAuto == InitAuto /\ [][NextAuto]_vars

-----------------------------------------------------------------------------
(* Claims about create_auto_conf_file *)

\* C7 as claimed: when the sequencer status file is absent or unreadable
\* nothing is raised, no synthesiser is detected and steam_dos_auto.conf is
\* written without a [midi] section.
C7_AbsentFileNoMidi ==
    ~args.present =>
        /\ pc /= "raised"
        /\ pc \in {"write", "written"} => result = NoPort
        /\ pc = "written" => (out.written /\ out.midi = <<>>)

\* the value the claim gives an option of the memory-manager section
C8_Value(o) ==
    IF args.given /\ "dos" \in DOMAIN args.conf /\ o \in DOMAIN args.conf["dos"]
    THEN args.conf["dos"][o] ELSE "true"

\* C8 as claimed: the file written always has the memory-manager section,
\* with xms, ems and umb as in the dos section of the configuration and true
\* for what is not there, also when there is no dos section.
C8_DosSectionAlways ==
    pc = "written" =>
        out.dos = <<[xms |-> C8_Value(o_xms), ems |-> C8_Value(o_ems),
                     umb |-> C8_Value(o_umb)]>>

\* C8 amended: the file written has the memory-manager section exactly when
\* a configuration with a dos section is given, with xms, ems and umb as in
\* that section and true for what is not there.
C8_DosSectionWhenPresent ==
    pc = "written" =>
        IF args.given /\ "dos" \in DOMAIN args.conf
        THEN out.dos = <<[xms |-> C8_Value(o_xms), ems |-> C8_Value(o_ems),
                          umb |-> C8_Value(o_umb)]>>
        ELSE out.dos = <<>>

\* a file written from a dos section that sets ems alone
C8_Witness ==
    /\ pc = "written"
    /\ args.given /\ "dos" \in DOMAIN args.conf
    /\ DOMAIN args.conf["dos"] = {o_ems}
    /\ args.conf["dos"][o_ems] = "false"
    /\ out.dos = <<[xms |-> "true", ems |-> "false", umb |-> "true"]>>

-----------------------------------------------------------------------------
(* midi.py: start_timidity, start_fluidsynth, stop_software_midi_synth *)

MaxSynths == 2

\* lines 62-64 and 71-73: Popen starts the child; its pid is its position
StartSynth(cmd) ==
    /\ pc = "idle"
    /\ Len(children) < MaxSynths
    /\ children' = Append(children, [cmd |-> cmd, state |-> "running"])
    /\ args' = [cmd |-> cmd, pid |-> Len(children) + 1]
    /\ pc' = "sleep"
    /\ UNCHANGED <<conf, raw_autoexec, encoding, idx, out, client, result, handlers>>

StartTimidity == StartSynth("timidity")

StartFluidsynth == StartSynth("fluidsynth")

\* lines 65-66 and 74-75: the sleep ends and the exit handler is registered
RegisterStop ==
    /\ pc = "sleep"
    /\ handlers' = Append(handlers, args.pid)
    /\ pc' = "idle"
    /\ UNCHANGED <<args, conf, raw_autoexec, encoding, idx, out, client, result, children>>

\* the parent begins to exit: the registered handlers run last to first
BeginExit ==
    /\ idx' = Len(handlers)
    /\ pc' = "exiting"
    /\ UNCHANGED <<args, conf, raw_autoexec, encoding, out, client, result,
                   children, handlers>>

\* the parent exits after a start_* call has returned, or before any
ExitWhenIdle == pc = "idle" /\ BeginExit

\* lines 65 and 74: the parent exits while time.sleep blocks (an interrupt
\* raised in the sleep), before line 66 or 75 is reached
ExitDuringSleep == pc = "sleep" /\ BeginExit

\* lines 78-81: stop_software_midi_synth(pid) called by atexit; os.kill
\* raises ProcessLookupError for a child already gone, and atexit goes on
\* with the next handler
RunExitHandler ==
    /\ pc = "exiting"
    /\ idx >= 1
    /\ LET pid == handlers[idx]
       IN  /\ out' = Append(out, pid)
           /\ children' = [children EXCEPT ![pid].state =
                              IF @ = "running" THEN "terminated" ELSE @]
    /\ idx' = idx - 1
    /\ UNCHANGED <<pc, args, conf, raw_autoexec, encoding, client, result, handlers>>

ParentExited ==
    /\ pc = "exiting"
    /\ idx = 0
    /\ pc' = "exited"
    /\ UNCHANGED <<args, conf, raw_autoexec, encoding, idx, out, client, result,
                   children, handlers>>

\* a synthesiser ends on its own
ChildExits ==
    /\ pc /= "exited"
    /\ \E pid \in 1..Len(children) :
          /\ children[pid].state = "running"
          /\ children' = [children EXCEPT ![pid].state = "gone"]
    /\ UNCHANGED <<pc, args, conf, raw_autoexec, encoding, idx, out, client, result,
                   handlers>>

InitSynth ==
    /\ pc = "idle"
    /\ args = [cmd |-> "", pid |-> 0]
    /\ children = <<>>
    /\ handlers = <<>>
    /\ out = <<>>
    /\ idx = 0
    /\ result = None
    /\ client = NoClient
    /\ conf = EmptyConf
    /\ raw_autoexec = <<>>
    /\ encoding = "utf-8"

NextSynth ==
    \/ StartTimidity
    \/ StartFluidsynth
    \/ RegisterStop
    \/ ExitWhenIdle
    \/ ExitDuringSleep
    \/ RunExitHandler
    \/ ParentExited
    \/ ChildExits

SpecSynth == InitSynth /\ [][NextSynth]_vars

\* C9 as claimed: when the parent has exited, at whatever point after the
\* launches, a termination signal has been sent to the pid of every
\* synthesiser that was launched.
C9_EveryChildSignalled ==
    pc = "exited" => \A pid \in 1..Len(children) : pid \in Range(out)

====
